---- MODULE Spec2Model ----
(***************************************************************************)
(* Model of the analytics stages of src/retail_analytics.py.               *)
(*                                                                         *)
(* Tables (pandas DataFrames) are sequences of records, one record per     *)
(* row, in table order.  Identifiers and dates are integers.  Money is     *)
(* fixed-point: an amount a stands for a / Unit currency units, so that    *)
(* sums and comparisons are exact.  A missing value (None / NaN / NaT) is   *)
(* the value NaN, which no identifier, date or amount of the model equals. *)
(*                                                                         *)
(* Each stage has its own specification: Init draws the stage's input      *)
(* tables from bounded sets and the actions run the stage.                 *)
(***************************************************************************)
EXTENDS Integers, Sequences, FiniteSets, TLC

VARIABLES
    store_sales_header,      \* input table: transaction headers
    store_sales_line_items,  \* input table: line items
    customer_details,        \* input table: the caller's customer table
    promotion_details,       \* input table: promotions
    inventory,               \* input table: stock per store and product
    stores,                  \* input table: stores
    customers,               \* loyalty_engine: its working customer table
    results,                 \* loyalty_engine: result records so far
    out,                     \* the values the stages returned so far, in call order
    pc                       \* control state of the stage being run

vars == <<store_sales_header, store_sales_line_items, customer_details,
          promotion_details, inventory, stores, customers, results, out, pc>>

----------------------------------------------------------------------------
(* Bounds and value sets                                                   *)

MaxTx == 3            \* header rows of a loyalty run
MaxCustomers == 1     \* rows of the customer table of a loyalty run

Unit == 1000          \* fixed-point scale of amounts
NaN == -1000000       \* the missing value

\* total_amount values of a loyalty run: negative, earning 0, earning 1
\* (50.00), earning more than the cap (6000.00)
LoyaltyAmounts == {-50 * Unit, 40 * Unit, 50 * Unit, 6000 * Unit}
InitialBalances == {0, 15}

----------------------------------------------------------------------------
(* Helpers                                                                 *)

Min(a, b) == IF a <= b THEN a ELSE b

RECURSIVE SelectRows(_, _)
\* the rows of table t at the positions in keep, in table order (boolean
\* mask indexing, t[mask])
SelectRows(t, keep) ==
    IF t = << >> THEN << >>
    ELSE LET n == Len(t)
             front == SelectRows(SubSeq(t, 1, n - 1), keep)
         IN  IF n \in keep THEN Append(front, t[n]) ELSE front

----------------------------------------------------------------------------
(* 3. loyalty_engine                                                       *)

\* customers = customer_details.set_index('customer_id').copy()
IndexedCopy(cd) ==
    [k \in 1..Len(cd) |-> [customer_id |-> cd[k].customer_id,
                           total_loyalty_points |-> cd[k].total_loyalty_points]]

\* cid in customers.index
InIndex(tbl, cid) == \E k \in 1..Len(tbl) : tbl[k].customer_id = cid

\* customers.at[cid, 'total_loyalty_points']
At(tbl, cid) ==
    LET k == CHOOSE j \in 1..Len(tbl) : tbl[j].customer_id = cid
    IN  tbl[k].total_loyalty_points

\* customers.at[cid, 'total_loyalty_points'] = v  (a label that is not in
\* the index is appended as a new row)
AtPut(tbl, cid, v) ==
    IF InIndex(tbl, cid)
    THEN [k \in 1..Len(tbl) |->
            IF tbl[k].customer_id = cid
            THEN [tbl[k] EXCEPT !.total_loyalty_points = v]
            ELSE tbl[k]]
    ELSE Append(tbl, [customer_id |-> cid, total_loyalty_points |-> v])

EarnedUncapped(amt) == (amt * 2) \div (100 * Unit)
\* earned = min(int(np.floor(amt * 0.02)), 100)
Earned(amt) == Min((amt * 2) \div (100 * Unit), 100)

\* existing = customers.at[cid, ...] if cid in customers.index else 0
Existing(tbl, cid) == IF InIndex(tbl, cid) THEN At(tbl, cid) ELSE 0

\* redeemable = min(int(np.floor(existing * 0.10)), earned)
Redeemable(existing, earned) == Min((existing * 10) \div 100, earned)

NewBalanceSwapped(existing, earned, redeemable) == existing - earned + redeemable
\* new_balance = existing + earned - redeemable
NewBalance(existing, earned, redeemable) == existing + earned - redeemable

CallerTableAliased(cd, cid, v) ==
    [k \in 1..Len(cd) |->
        IF cd[k].customer_id = cid
        THEN [cd[k] EXCEPT !.total_loyalty_points = v]
        ELSE cd[k]]
\* What the caller's table holds after the engine wrote v for cid: the
\* engine writes to its own copy, so the caller's table is as it was.
CallerTableAfterWrite(cd, cid, v) == cd

RECURSIVE IterRowsByDate(_)
IterRowsByDate(header) ==
    IF header = << >> THEN << >>
    ELSE LET n == Len(header)
             front == IterRowsByDate(SubSeq(header, 1, n - 1))
         IN  SelectSeq(front, LAMBDA r : r.transaction_date <= header[n].transaction_date)
             \o <<header[n]>>
             \o SelectSeq(front, LAMBDA r : r.transaction_date > header[n].transaction_date)
\* for _, tx in store_sales_header.iterrows(): the rows in table order
IterRows(header) == header

LoyaltyHeaderRow(k, c) ==
    [transaction_id |-> k, customer_id |-> c[1], store_id |-> 1,
     transaction_date |-> 1, total_amount |-> c[2]]

\* customer ids of the table are 1..n; MaxCustomers + 1 is a customer that
\* is in no customer table
LoyaltyHeaderTables(n) ==
    {[k \in 1..n |-> LoyaltyHeaderRow(k, f[k])] :
       f \in [1..n -> (1..(MaxCustomers + 1)) \X LoyaltyAmounts]}

CustomerRow(k, pts, last) ==
    [customer_id |-> k, total_loyalty_points |-> pts, last_purchase_date |-> last]

LoyaltyCustomerTables ==
    {[k \in 1..MaxCustomers |-> CustomerRow(k, f[k], NaN)] :
        f \in [1..MaxCustomers -> InitialBalances]}

InitLoyalty ==
    /\ \E n \in 0..MaxTx : store_sales_header \in LoyaltyHeaderTables(n)
    /\ customer_details \in LoyaltyCustomerTables
    /\ store_sales_line_items = << >>
    /\ promotion_details = << >>
    /\ inventory = << >>
    /\ stores = << >>
    /\ customers = << >>
    /\ results = << >>
    /\ out = << >>
    /\ pc = "start"

\* line 99-100
LoyaltyEnter ==
    /\ pc = "start"
    /\ customers' = IndexedCopy(customer_details)
    /\ results' = << >>
    /\ pc' = "loop"
    /\ UNCHANGED <<store_sales_header, store_sales_line_items,
                   customer_details, promotion_details, inventory, stores,
                   out>>

\* one iteration of the loop of lines 101-119
LoyaltyStep ==
    /\ pc = "loop"
    /\ Len(results) < Len(store_sales_header)
    /\ LET tx == IterRows(store_sales_header)[Len(results) + 1]
           cid == tx.customer_id
           earned == Earned(tx.total_amount)
           existing == Existing(customers, cid)
           redeemable == Redeemable(existing, earned)
           new_balance == NewBalance(existing, earned, redeemable)
       IN  /\ customers' = AtPut(customers, cid, new_balance)
           /\ customer_details' = CallerTableAfterWrite(customer_details, cid, new_balance)
           /\ results' = Append(results,
                  [transaction_id |-> tx.transaction_id,
                   customer_id |-> cid,
                   coins_earned |-> earned,
                   coins_redeemed |-> redeemable,
                   updated_balance |-> new_balance])
    /\ UNCHANGED <<store_sales_header, store_sales_line_items,
                   promotion_details, inventory, stores, out, pc>>

\* line 120
LoyaltyReturn ==
    /\ pc = "loop"
    /\ Len(results) = Len(store_sales_header)
    /\ out' = Append(out, results)
    /\ pc' = "returned"
    /\ UNCHANGED <<store_sales_header, store_sales_line_items,
                   customer_details, promotion_details, inventory, stores,
                   customers, results>>

NextLoyalty == LoyaltyEnter \/ LoyaltyStep \/ LoyaltyReturn

SpecLoyalty == InitLoyalty /\ [][NextLoyalty]_vars

\* The ledger of one customer over transactions with distinct dates, run
\* on one ordering of the header table and then on another ordering of the
\* same rows.
MaxOrderTx == 3

OrderAmounts == {40 * Unit, 50 * Unit, 6000 * Unit}

\* header rows of customer 1; row k has transaction_id k and date d[k],
\* the dates being a permutation of 1..n
OrderHeaderTables(n) ==
    {[k \in 1..n |->
         [transaction_id |-> k, customer_id |-> 1, store_id |-> 1,
          transaction_date |-> d[k], total_amount |-> a[k]]] :
       d \in Permutations(1..n), a \in [1..n -> OrderAmounts]}

InitOrder ==
    /\ \E n \in 0..MaxOrderTx : store_sales_header \in OrderHeaderTables(n)
    /\ customer_details \in {<<CustomerRow(1, b, NaN)>> : b \in InitialBalances}
    /\ store_sales_line_items = << >>
    /\ promotion_details = << >>
    /\ inventory = << >>
    /\ stores = << >>
    /\ customers = << >>
    /\ results = << >>
    /\ out = << >>
    /\ pc = "start"

\* the caller runs the engine again on the same rows in another order;
\* customer_details is what the first run left
LoyaltyReorder ==
    /\ pc = "returned"
    /\ Len(out) = 1
    /\ \E p \in Permutations(1..Len(store_sales_header)) :
          store_sales_header' =
              [k \in 1..Len(store_sales_header) |-> store_sales_header[p[k]]]
    /\ customers' = << >>
    /\ results' = << >>
    /\ pc' = "start"
    /\ UNCHANGED <<store_sales_line_items, customer_details,
                   promotion_details, inventory, stores, out>>

NextOrder == LoyaltyEnter \/ LoyaltyStep \/ LoyaltyReturn \/ LoyaltyReorder

SpecOrder == InitOrder /\ [][NextOrder]_vars

----------------------------------------------------------------------------
(* 1. quality_layer                                                        *)

MaxHeaders == 2       \* header rows of a quality_layer input
MaxLines == 2         \* line rows of a quality_layer input

IsNull(x) == x = NaN

\* header_nulls: store_sales_header[header_required].isnull().any(axis=1)
HeaderNulls(h) ==
    \/ IsNull(h.transaction_id)
    \/ IsNull(h.customer_id)
    \/ IsNull(h.store_id)
    \/ IsNull(h.transaction_date)
    \/ IsNull(h.total_amount)

LineNullsNoQuantity(l) ==
    \/ IsNull(l.transaction_id)
    \/ IsNull(l.product_id)
    \/ IsNull(l.line_item_amount)
\* line_nulls: store_sales_line_items[line_required].isnull().any(axis=1)
LineNulls(l) ==
    \/ IsNull(l.transaction_id)
    \/ IsNull(l.product_id)
    \/ IsNull(l.quantity)
    \/ IsNull(l.line_item_amount)

\* header_neg: total_amount < 0 (a comparison with NaN is False)
HeaderNeg(h) == ~IsNull(h.total_amount) /\ h.total_amount < 0

\* line_neg: line_item_amount < 0
LineNeg(l) == ~IsNull(l.line_item_amount) /\ l.line_item_amount < 0

RECURSIVE SortedSeq(_)
\* the elements of a finite set of integers in ascending order
SortedSeq(S) ==
    IF S = {} THEN << >>
    ELSE LET m == CHOOSE x \in S : \A y \in S : x <= y
         IN  <<m>> \o SortedSeq(S \ {m})

\* the index of line_sums: groupby sorts the keys and drops a null key
LineSumsIndex(lines) ==
    SortedSeq({lines[k].transaction_id : k \in 1..Len(lines)} \ {NaN})

RECURSIVE LineSum(_, _)
\* line_sums[t]: the sum of line_item_amount over the lines of transaction
\* t; sum() skips a null amount
LineSum(lines, t) ==
    IF lines = << >> THEN 0
    ELSE LET n == Len(lines)
             l == lines[n]
             rest == LineSum(SubSeq(lines, 1, n - 1), t)
         IN  IF l.transaction_id = t /\ ~IsNull(l.line_item_amount)
             THEN rest + l.line_item_amount
             ELSE rest

\* the index of store_sales_header.set_index('transaction_id')
HeaderIndex(header) == [k \in 1..Len(header) |-> header[k].transaction_id]

\* Series._indexed_same: a comparison of two Series raises ValueError
\* unless their indexes hold the same labels in the same order
IndexedSame(header, lines) == HeaderIndex(header) = LineSumsIndex(lines)

Tolerance == 10       \* 0.01 currency unit, in 1 / Unit

\* header_mismatch: total_amount != line_sums (NaN != x is True)
HeaderMismatch(h, lines) ==
    \/ IsNull(h.total_amount)
    \/ h.total_amount # LineSum(lines, h.transaction_id)

\* header_nulls | header_neg | header_mismatch.values
HeaderFails(h, lines) == HeaderNulls(h) \/ HeaderNeg(h) \/ HeaderMismatch(h, lines)

\* line_nulls | line_neg
LineFails(l) == LineNulls(l) \/ LineNeg(l)

\* line 32
CleanHeader(header, lines) ==
    SelectRows(header, {k \in 1..Len(header) : ~HeaderFails(header[k], lines)})

RejectedHeaderNoMismatch(header, lines) ==
    SelectRows(header, {k \in 1..Len(header) :
                           HeaderNulls(header[k]) \/ HeaderNeg(header[k])})
\* line 35
RejectedHeader(header, lines) ==
    SelectRows(header, {k \in 1..Len(header) : HeaderFails(header[k], lines)})

\* line 33
CleanLines(lines) == SelectRows(lines, {k \in 1..Len(lines) : ~LineFails(lines[k])})

\* line 36
RejectedLines(lines) == SelectRows(lines, {k \in 1..Len(lines) : LineFails(lines[k])})

\* the value of a call: the four tables, or the ValueError raised where
\* line 29 compares two Series that are not identically labelled
quality_layer(header, lines) ==
    IF ~IndexedSame(header, lines)
    THEN [error |-> "ValueError",
          clean_header |-> << >>, clean_lines |-> << >>,
          rejected_header |-> << >>, rejected_lines |-> << >>]
    ELSE [error |-> "none",
          clean_header |-> CleanHeader(header, lines),
          clean_lines |-> CleanLines(lines),
          rejected_header |-> RejectedHeader(header, lines),
          rejected_lines |-> RejectedLines(lines)]

\* header rows of the inputs: <<transaction_id, customer_id, store_id,
\* transaction_date, total_amount>>; 100.00 is the total of a well-formed
\* transaction
QualityHeaderRows ==
    {<<1, 1, 1, 1, 100 * Unit>>,
     <<2, 1, 1, 1, 100 * Unit>>,
     <<1, 1, 1, 1, -5>>,
     <<1, 1, 1, 1, NaN>>,
     <<1, NaN, 1, 1, 100 * Unit>>,
     <<2, 1, NaN, 1, 100 * Unit>>,
     <<2, 1, 1, NaN, 100 * Unit>>,
     <<NaN, 1, 1, 1, 100 * Unit>>}

\* line rows of the inputs: <<transaction_id, product_id, quantity,
\* line_item_amount>>; amounts 100.00, 100.005, 100.02 and -0.005
QualityLineRows ==
    {<<1, 1, 1, 100 * Unit>>,
     <<1, 1, 1, 100 * Unit + 5>>,
     <<1, 1, 1, 100 * Unit + 20>>,
     <<1, 1, 1, -5>>,
     <<2, 1, 1, 100 * Unit>>,
     <<1, NaN, 1, 100 * Unit>>,
     <<2, 1, NaN, 100 * Unit>>,
     <<1, 1, 1, NaN>>,
     <<NaN, 1, 1, 100 * Unit>>}

HeaderRow(r) ==
    [transaction_id |-> r[1], customer_id |-> r[2], store_id |-> r[3],
     transaction_date |-> r[4], total_amount |-> r[5]]

LineRow(r) ==
    [transaction_id |-> r[1], product_id |-> r[2], promotion_id |-> NaN,
     quantity |-> r[3], line_item_amount |-> r[4]]

QualityHeaderTables(n) ==
    {[k \in 1..n |-> HeaderRow(f[k])] : f \in [1..n -> QualityHeaderRows]}

QualityLineTables(n) ==
    {[k \in 1..n |-> LineRow(f[k])] : f \in [1..n -> QualityLineRows]}

InitQuality ==
    /\ \E n \in 0..MaxHeaders : store_sales_header \in QualityHeaderTables(n)
    /\ \E n \in 0..MaxLines : store_sales_line_items \in QualityLineTables(n)
    /\ customer_details = << >>
    /\ promotion_details = << >>
    /\ inventory = << >>
    /\ stores = << >>
    /\ customers = << >>
    /\ results = << >>
    /\ out = << >>
    /\ pc = "start"

\* a call of quality_layer on the input tables
QualityCall ==
    /\ pc = "start"
    /\ LET r == quality_layer(store_sales_header, store_sales_line_items)
       IN  /\ out' = <<r>>
           /\ pc' = IF r.error = "none" THEN "returned" ELSE "raised"
    /\ UNCHANGED <<store_sales_header, store_sales_line_items,
                   customer_details, promotion_details, inventory, stores,
                   customers, results>>

\* a second call of quality_layer, on the clean tables the first returned
QualityRerun ==
    /\ pc = "returned"
    /\ out' = Append(out, quality_layer(out[1].clean_header, out[1].clean_lines))
    /\ pc' = "rerun"
    /\ UNCHANGED <<store_sales_header, store_sales_line_items,
                   customer_details, promotion_details, inventory, stores,
                   customers, results>>

NextQuality == QualityCall \/ QualityRerun

SpecQuality == InitQuality /\ [][NextQuality]_vars

----------------------------------------------------------------------------
(* 5. rfm_segmentation                                                     *)

MaxRfmCustomers == 3  \* rows of the customer table of a segmentation run
MaxRfmTx == 2         \* header rows of a segmentation run

RefDate == 100        \* ref_date, a day number

RecencyStale(c, ref_date) ==
    IF IsNull(c.last_purchase_date) THEN ref_date ELSE ref_date - c.last_purchase_date
\* recency: (ref_date - last_purchase_date).dt.days, NaN for a missing date
Recency(c, ref_date) ==
    IF IsNull(c.last_purchase_date) THEN NaN ELSE ref_date - c.last_purchase_date

\* frequency=('transaction_id','nunique') of the customer's header rows,
\* filled with 0 for a customer without one
Frequency(header, cid) ==
    Cardinality({header[k].transaction_id : k \in
                    {j \in 1..Len(header) : header[j].customer_id = cid}} \ {NaN})

RECURSIVE Monetary(_, _)
\* monetary=('total_amount','sum') of the customer's header rows, filled
\* with 0 for a customer without one
Monetary(header, cid) ==
    IF header = << >> THEN 0
    ELSE LET n == Len(header)
             h == header[n]
             rest == Monetary(SubSeq(header, 1, n - 1), cid)
         IN  IF h.customer_id = cid /\ ~IsNull(h.total_amount)
             THEN rest + h.total_amount
             ELSE rest

\* Series.rank(method='first'): 1 + the number of values that are smaller
\* or are equal and earlier in the table
RankFirst(vals, k) ==
    1 + Cardinality({j \in 1..Len(vals) :
                        vals[j] < vals[k] \/ (vals[j] = vals[k] /\ j < k)})

\* pd.qcut(ranks, 10, labels=False, duplicates='drop') + 1 for the rank r
\* among the ranks 1..n.  The bin edges are the quantiles
\* 1 + k (n - 1) / 10, k = 0..10.  For n = 1 they are all 1: the duplicates
\* are dropped, the single edge bounds no bin, and the result is NaN.
\* Otherwise the bin of r is the number of edges below r, and the lowest
\* rank is included in the first bin.
QcutDecile(r, n) ==
    IF n = 1 THEN NaN
    ELSE LET ids == Cardinality({k \in 0..10 : k * (n - 1) < 10 * (r - 1)})
         IN  IF r = 1 THEN 1 ELSE ids

\* lines 181-183: the assignments are made in this order, a later one
\* overwriting an earlier one
Segment(m_score, recency, points) ==
    LET s0 == "Core"
        s1 == IF ~IsNull(m_score) /\ m_score >= 10 THEN "High Spenders" ELSE s0
        s2 == IF ~IsNull(recency) /\ recency > 60 /\ points > 0 THEN "At-Risk" ELSE s1
    IN  s2

\* line 185
ReactivationPotential(segment, points) ==
    IF segment = "At-Risk" /\ points > 0 THEN "High" ELSE "Low"

\* the table rfm_segmentation returns, one row per customer row
rfm_segmentation(header, cd, ref_date) ==
    LET monetary == [k \in 1..Len(cd) |-> Monetary(header, cd[k].customer_id)]
    IN  [k \in 1..Len(cd) |->
            LET recency == Recency(cd[k], ref_date)
                m_score == QcutDecile(RankFirst(monetary, k), Len(cd))
                segment == Segment(m_score, recency, cd[k].total_loyalty_points)
            IN  [customer_id |-> cd[k].customer_id,
                 recency |-> recency,
                 frequency |-> Frequency(header, cd[k].customer_id),
                 monetary |-> monetary[k],
                 m_score |-> m_score,
                 segment |-> segment,
                 reactivation_potential |->
                     ReactivationPotential(segment, cd[k].total_loyalty_points),
                 total_loyalty_points |-> cd[k].total_loyalty_points]]

\* the k-th header row of a segmentation run has total_amount 10.00 * k
RfmAmount(k) == 10 * Unit * k
RfmBalances == {0, 5}
\* missing, 61 days before ref_date, 60 days before ref_date
RfmLastPurchaseDates == {NaN, RefDate - 61, RefDate - 60}

RfmCustomerTables(n) ==
    {[k \in 1..n |-> CustomerRow(k, f[k][1], f[k][2])] :
       f \in [1..n -> RfmBalances \X RfmLastPurchaseDates]}

RfmHeaderTables(n) ==
    {[k \in 1..n |-> HeaderRow(<<k, f[k], 1, 1, RfmAmount(k)>>)] :
       f \in [1..n -> 1..MaxRfmCustomers]}

InitRfm ==
    /\ \E n \in 0..MaxRfmTx : store_sales_header \in RfmHeaderTables(n)
    /\ \E n \in 1..MaxRfmCustomers : customer_details \in RfmCustomerTables(n)
    /\ store_sales_line_items = << >>
    /\ promotion_details = << >>
    /\ inventory = << >>
    /\ stores = << >>
    /\ customers = << >>
    /\ results = << >>
    /\ out = << >>
    /\ pc = "start"

\* a call of rfm_segmentation on the input tables
RfmCall ==
    /\ pc = "start"
    /\ out' = <<rfm_segmentation(store_sales_header, customer_details, RefDate)>>
    /\ pc' = "returned"
    /\ UNCHANGED <<store_sales_header, store_sales_line_items,
                   customer_details, promotion_details, inventory, stores,
                   customers, results>>

NextRfm == RfmCall

SpecRfm == InitRfm /\ [][NextRfm]_vars

----------------------------------------------------------------------------
(* 4. promotion_funnel                                                     *)

MaxFunnelTx == 2      \* header rows of a funnel run
MaxFunnelLines == 2   \* line rows of a funnel run

\* eligible_tx: the header rows dated within [start, end], both ends
\* included (a comparison with a missing date is False)
EligibleTx(header, promo) ==
    {k \in 1..Len(header) :
        /\ ~IsNull(header[k].transaction_date)
        /\ header[k].transaction_date >= promo.start_date
        /\ header[k].transaction_date <= promo.end_date}

\* eligible_customers = set(eligible_tx['customer_id'])
EligibleCustomers(header, promo) ==
    {header[k].customer_id : k \in EligibleTx(header, promo)}

\* reacted_customers: the customers of the header rows that an inner merge
\* on transaction_id joins to a line with this promotion_id
ReactedCustomers(header, lines, promo) ==
    {header[k].customer_id : k \in
        {j \in 1..Len(header) :
            \E i \in 1..Len(lines) :
                /\ lines[i].promotion_id = promo.promotion_id
                /\ lines[i].transaction_id = header[j].transaction_id}}

NReactedAll(header, lines, promo) ==
    Cardinality(ReactedCustomers(header, lines, promo))
\* n_reacted = len(reacted_customers & eligible_customers)
NReacted(header, lines, promo) ==
    Cardinality(ReactedCustomers(header, lines, promo)
                    \cap EligibleCustomers(header, promo))

\* (n / n_eligible * 100) if n_eligible else 0, as the fraction num / den
Pct(n, n_eligible) ==
    IF n_eligible # 0 THEN [num |-> n * 100, den |-> n_eligible]
    ELSE [num |-> 0, den |-> 1]

\* the table promotion_funnel returns, one row per promotion
promotion_funnel(header, lines, promos) ==
    [p \in 1..Len(promos) |->
        LET n_eligible == Cardinality(EligibleCustomers(header, promos[p]))
            n_reacted == NReacted(header, lines, promos[p])
            n_purchased == n_reacted
        IN  [promotion_id |-> promos[p].promotion_id,
             eligible |-> n_eligible,
             reacted |-> n_reacted,
             purchased |-> n_purchased,
             pct_reacted |-> Pct(n_reacted, n_eligible),
             pct_purchased |-> Pct(n_purchased, n_eligible)]]

\* two promotions with overlapping windows, [2, 3] and [1, 2]
FunnelPromotions ==
    <<[promotion_id |-> 1, start_date |-> 2, end_date |-> 3],
      [promotion_id |-> 2, start_date |-> 1, end_date |-> 2]>>

FunnelCustomers == {1, 2}
FunnelDates == {1, 2, 3}

FunnelHeaderTables(n) ==
    {[k \in 1..n |-> HeaderRow(<<k, f[k][1], 1, f[k][2], 100 * Unit>>)] :
       f \in [1..n -> FunnelCustomers \X FunnelDates]}

FunnelLineRow(r) ==
    [transaction_id |-> r[1], product_id |-> 1, promotion_id |-> r[2],
     quantity |-> 1, line_item_amount |-> 100 * Unit]

\* a line belongs to one of the transactions 1..MaxFunnelTx (which the
\* header table may lack) and has promotion 1, promotion 2 or none
FunnelLineTables(n) ==
    {[k \in 1..n |-> FunnelLineRow(f[k])] :
       f \in [1..n -> (1..MaxFunnelTx) \X {1, 2, NaN}]}

InitFunnel ==
    /\ \E n \in 0..MaxFunnelTx : store_sales_header \in FunnelHeaderTables(n)
    /\ \E n \in 0..MaxFunnelLines : store_sales_line_items \in FunnelLineTables(n)
    /\ promotion_details = FunnelPromotions
    /\ inventory = << >>
    /\ stores = << >>
    /\ customer_details = << >>
    /\ customers = << >>
    /\ results = << >>
    /\ out = << >>
    /\ pc = "start"

\* a call of promotion_funnel on the input tables
FunnelCall ==
    /\ pc = "start"
    /\ out' = <<promotion_funnel(store_sales_header, store_sales_line_items,
                                 promotion_details)>>
    /\ pc' = "returned"
    /\ UNCHANGED <<store_sales_header, store_sales_line_items,
                   customer_details, promotion_details, inventory, stores,
                   customers, results>>

NextFunnel == FunnelCall

SpecFunnel == InitFunnel /\ [][NextFunnel]_vars

----------------------------------------------------------------------------
(* 6. event_log and 7. notification_simulator                              *)

MaxEvTx == 3          \* header rows of an event-log run

RECURSIVE LedgerRun(_, _, _)
\* the loop of lines 101-119 over rows, from the working table tbl and the
\* records res
LedgerRun(rows, tbl, res) ==
    IF rows = << >> THEN res
    ELSE LET tx == Head(rows)
             cid == tx.customer_id
             earned == Earned(tx.total_amount)
             existing == Existing(tbl, cid)
             redeemable == Redeemable(existing, earned)
             new_balance == NewBalance(existing, earned, redeemable)
         IN  LedgerRun(Tail(rows), AtPut(tbl, cid, new_balance),
                 Append(res,
                     [transaction_id |-> tx.transaction_id,
                      customer_id |-> cid,
                      coins_earned |-> earned,
                      coins_redeemed |-> redeemable,
                      updated_balance |-> new_balance]))

\* the table loyalty_engine returns
loyalty_engine(header, cd) == LedgerRun(IterRows(header), IndexedCopy(cd), << >>)

\* a row of the events table; a key that an event does not set is missing
Event(cid, name, date, tx, promo, coins) ==
    [customer_id |-> cid, event |-> name, date |-> date,
     transaction_id |-> tx, promotion_id |-> promo, coins |-> coins]

\* lines 197-198
TransactionEvents(header) ==
    [k \in 1..Len(header) |->
        Event(header[k].customer_id, "transaction", header[k].transaction_date,
              header[k].transaction_id, NaN, NaN)]

\* lines 200-202
PromotionEvents(lines) ==
    LET promo_lines == SelectRows(lines,
            {k \in 1..Len(lines) : ~IsNull(lines[k].promotion_id)})
    IN  [k \in 1..Len(promo_lines) |->
            Event(NaN, "promotion_purchase", NaN, promo_lines[k].transaction_id,
                  promo_lines[k].promotion_id, NaN)]

RECURSIVE CoinEvents(_)
\* lines 204-207
CoinEvents(loyalty_df) ==
    IF loyalty_df = << >> THEN << >>
    ELSE LET row == Head(loyalty_df)
             earnedEv == Event(row.customer_id, "coins_earned", NaN,
                               row.transaction_id, NaN, row.coins_earned)
             redeemedEv == Event(row.customer_id, "coins_redeemed", NaN,
                                 row.transaction_id, NaN, row.coins_redeemed)
         IN  <<earnedEv>>
             \o (IF row.coins_redeemed > 0 THEN <<redeemedEv>> ELSE << >>)
             \o CoinEvents(Tail(loyalty_df))

\* lines 209-211
InactivityEvents(rfm_df) ==
    LET at_risk == SelectRows(rfm_df,
            {k \in 1..Len(rfm_df) : rfm_df[k].segment = "At-Risk"})
    IN  [k \in 1..Len(at_risk) |->
            Event(at_risk[k].customer_id, "inactivity_threshold", NaN, NaN, NaN, NaN)]

\* the table event_log returns
event_log(header, lines, loyalty_df, rfm_df) ==
    TransactionEvents(header) \o PromotionEvents(lines)
        \o CoinEvents(loyalty_df) \o InactivityEvents(rfm_df)

NotifiesAlways(row) == row.coins_earned >= 0
\* line 223
Notifies(row) == row.coins_earned > 0

\* lines 224-225: the segment of the first rfm row of the customer
SegmentOf(rfm_df, cid) ==
    LET rows == {k \in 1..Len(rfm_df) : rfm_df[k].customer_id = cid}
    IN  IF rows = {} THEN "Unknown"
        ELSE rfm_df[CHOOSE k \in rows : \A j \in rows : k <= j].segment

\* lines 231-236
Template(segment) ==
    IF segment = "High Spenders" THEN "VIP_Earned"
    ELSE IF segment = "At-Risk" THEN "Reactivation_Nudge"
    ELSE "Standard_Earned"

DistToNextWrapped(total_points) == (100 - (total_points % 100)) % 100
\* line 229
DistToNext(total_points) == 100 - (total_points % 100)

\* line 237: the f-string, as its literal parts around the formatted number
CallToAction(dist_to_next) ==
    <<"Earn ", dist_to_next, " more coins for your next reward!">>

\* the table notification_simulator returns
notification_simulator(loyalty_df, rfm_df) ==
    LET notified == SelectRows(loyalty_df,
            {k \in 1..Len(loyalty_df) : Notifies(loyalty_df[k])})
    IN  [k \in 1..Len(notified) |->
            LET row == notified[k]
            IN  [customer_id |-> row.customer_id,
                 template_used |-> Template(SegmentOf(rfm_df, row.customer_id)),
                 points_earned |-> row.coins_earned,
                 total_points |-> row.updated_balance,
                 call_to_action |-> CallToAction(DistToNext(row.updated_balance))]]

\* total_amount earning 0 coins, 1 coin, the cap of 100 coins
EvAmounts == {40 * Unit, 50 * Unit, 6000 * Unit}
EvLastPurchaseDates == {NaN, RefDate - 61}

\* the customer table has customer 1, new (no points, no purchase date),
\* and customer 2, with 15 points
EvCustomerTables ==
    {<<CustomerRow(1, 0, NaN), CustomerRow(2, 15, d)>> : d \in EvLastPurchaseDates}

\* customer 3 is in no customer table
EvHeaderTables(n) ==
    {[k \in 1..n |-> HeaderRow(<<k, f[k][1], 1, k, f[k][2]>>)] :
       f \in [1..n -> (1..3) \X EvAmounts]}

\* two line items, each with promotion 1 or none
EvLineTables ==
    {[k \in 1..2 |->
         [transaction_id |-> k, product_id |-> 1, promotion_id |-> f[k],
          quantity |-> 1, line_item_amount |-> 100 * Unit]] :
       f \in [1..2 -> {1, NaN}]}

InitEvents ==
    /\ \E n \in 0..MaxEvTx : store_sales_header \in EvHeaderTables(n)
    /\ store_sales_line_items \in EvLineTables
    /\ customer_details \in EvCustomerTables
    /\ promotion_details = << >>
    /\ inventory = << >>
    /\ stores = << >>
    /\ customers = << >>
    /\ results = << >>
    /\ out = << >>
    /\ pc = "start"

\* the event-log tab: the ledger and the segmentation of the input tables,
\* then event_log on them
EventLogCall ==
    /\ pc = "start"
    /\ LET loyalty_df == loyalty_engine(store_sales_header, customer_details)
           rfm == rfm_segmentation(store_sales_header, customer_details, RefDate)
       IN  out' = <<[loyalty_df |-> loyalty_df,
                     rfm |-> rfm,
                     events |-> event_log(store_sales_header, store_sales_line_items,
                                          loyalty_df, rfm)]>>
    /\ pc' = "events"
    /\ UNCHANGED <<store_sales_header, store_sales_line_items,
                   customer_details, promotion_details, inventory, stores,
                   customers, results>>

\* the notification tab: notification_simulator on the same ledger and
\* segmentation
NotificationCall ==
    /\ pc = "events"
    /\ out' = Append(out, notification_simulator(out[1].loyalty_df, out[1].rfm))
    /\ pc' = "returned"
    /\ UNCHANGED <<store_sales_header, store_sales_line_items,
                   customer_details, promotion_details, inventory, stores,
                   customers, results>>

NextEvents == EventLogCall \/ NotificationCall

SpecEvents == InitEvents /\ [][NextEvents]_vars

----------------------------------------------------------------------------
(* 8. inventory_risk_analysis                                              *)

MaxInvLines == 2      \* line items of an inventory run
MaxInvRecords == 1    \* rows of the inventory table

Days == 7             \* days = 7
TopN == 5             \* head(5)

\* A quotient of integers, den > 0.  avg_daily_sales and the columns
\* derived from it are quotients of integers by 7; the float quotient is
\* exact wherever it meets a threshold (7 * stock = t * units with
\* t in {1, 2, 5, 20} makes units a multiple of 7).
Ratio(n, d) == [num |-> n, den |-> d]

\* the missing quotient
NaNRatio == Ratio(NaN, 1)
IsNullRatio(x) == IsNull(x.num)

\* x < t and x > t for a quotient x and an integer t
RatioBelow(x, t) == x.num < t * x.den
RatioAbove(x, t) == x.num > t * x.den

RECURSIVE SumQuantity(_)
\* ('quantity','sum') over the rows of a group
SumQuantity(rows) ==
    IF rows = << >> THEN 0
    ELSE (IF IsNull(Head(rows).quantity) THEN 0 ELSE Head(rows).quantity)
         + SumQuantity(Tail(rows))

RECURSIVE SalesWithStore(_, _)
\* lines 274-277: the line items left-merged with the header on
\* transaction_id; a line item without a header row keeps a missing store_id
SalesWithStore(lines, header) ==
    IF lines = << >> THEN << >>
    ELSE LET l == Head(lines)
             hs == SelectRows(header,
                      {k \in 1..Len(header) :
                          header[k].transaction_id = l.transaction_id})
             row(store) == [transaction_id |-> l.transaction_id,
                            product_id |-> l.product_id,
                            quantity |-> l.quantity,
                            store_id |-> store]
         IN  (IF hs = << >> THEN <<row(NaN)>>
              ELSE [k \in 1..Len(hs) |-> row(hs[k].store_id)])
             \o SalesWithStore(Tail(lines), header)

\* line 282: one row per product_id, in ascending product_id
ProdSales(sales) ==
    LET ids == SortedSeq({sales[k].product_id : k \in 1..Len(sales)} \ {NaN})
    IN  [i \in 1..Len(ids) |->
            [product_id |-> ids[i],
             units_sold |-> SumQuantity(SelectRows(sales,
                                {k \in 1..Len(sales) : sales[k].product_id = ids[i]}))]]

\* line 283: sort_values('units_sold', ascending=False) with the default
\* kind='quicksort', which is not stable: every arrangement of the rows
\* with units_sold non-increasing is a possible result
SortValuesDescending(prod_sales) ==
    {[k \in 1..Len(prod_sales) |-> prod_sales[p[k]]] :
        p \in {q \in Permutations(1..Len(prod_sales)) :
                  \A i, j \in 1..Len(prod_sales) :
                      i < j => prod_sales[q[i]].units_sold >= prod_sales[q[j]].units_sold}}

\* line 283: .head(5)['product_id'].tolist()
Head5(sorted) == [k \in 1..Min(TopN, Len(sorted)) |-> sorted[k].product_id]

\* line 286: MultiIndex.from_product([stores['store_id'], top5])
AllPairs(st, top5) ==
    [i \in 1..(Len(st) * Len(top5)) |->
        [store_id |-> st[((i - 1) \div Len(top5)) + 1].store_id,
         product_id |-> top5[((i - 1) % Len(top5)) + 1]]]

\* lines 289-302: total_units of the pair among the sales of the top-5
\* products, 0 for a pair without sales
TotalUnits(sales, top5, pair) ==
    LET top_sales == SelectRows(sales,
            {k \in 1..Len(sales) :
                \E i \in 1..Len(top5) : sales[k].product_id = top5[i]})
    IN  SumQuantity(SelectRows(top_sales,
            {k \in 1..Len(top_sales) :
                /\ top_sales[k].store_id = pair.store_id
                /\ top_sales[k].product_id = pair.product_id}))

RECURSIVE MergeInventory(_, _)
\* lines 305-306: the pairs left-merged with the inventory; a pair without
\* an inventory row gets current_stock_level 0
MergeInventory(pairs, inv) ==
    IF pairs = << >> THEN << >>
    ELSE LET pair == Head(pairs)
             recs == SelectRows(inv,
                        {k \in 1..Len(inv) :
                            /\ inv[k].store_id = pair.store_id
                            /\ inv[k].product_id = pair.product_id})
             row(stock) == [store_id |-> pair.store_id,
                            product_id |-> pair.product_id,
                            current_stock_level |-> IF IsNull(stock) THEN 0 ELSE stock]
         IN  (IF recs = << >> THEN <<row(NaN)>>
              ELSE [k \in 1..Len(recs) |-> row(recs[k].current_stock_level)])
             \o MergeInventory(Tail(pairs), inv)

\* line 298 and the fillna of line 302
AvgDailySales(total_units) == Ratio(total_units, Days)

\* line 307: stock / avg_daily_sales, missing when avg_daily_sales is 0
DaysOfInventoryLeft(stock, avg) ==
    IF avg.num = 0 THEN NaNRatio ELSE Ratio(stock * avg.den, avg.num)

classifyInclusive(x) ==
    IF IsNullRatio(x) THEN "Unknown"
    ELSE IF ~RatioAbove(x, 2) THEN "Critical"
    ELSE IF ~RatioAbove(x, 5) THEN "Watchlist"
    ELSE IF ~RatioBelow(x, 20) THEN "Overstocked"
    ELSE "Safe"
\* lines 310-315
classify(x) ==
    IF IsNullRatio(x) THEN "Unknown"
    ELSE IF RatioBelow(x, 2) THEN "Critical"
    ELSE IF RatioBelow(x, 5) THEN "Watchlist"
    ELSE IF RatioAbove(x, 20) THEN "Overstocked"
    ELSE "Safe"

PotentialLostUnitsCritical(days_left, avg) ==
    IF ~IsNullRatio(days_left) /\ RatioBelow(days_left, 2) THEN avg ELSE Ratio(0, 1)
\* line 320: np.where(days_of_inventory_left < 1, avg_daily_sales, 0)
PotentialLostUnits(days_left, avg) ==
    IF ~IsNullRatio(days_left) /\ RatioBelow(days_left, 1) THEN avg ELSE Ratio(0, 1)

\* line 321
PotentialLostRevenue(lost_units, avg) ==
    Ratio(lost_units.num * avg.num, lost_units.den * avg.den)

\* lines 324: store_city and store_region of the first stores row of the store
StoreOf(st, sid) ==
    st[CHOOSE k \in 1..Len(st) :
          /\ st[k].store_id = sid
          /\ \A j \in 1..(k - 1) : st[j].store_id # sid]

\* the table inventory_risk_analysis returns when the sort of line 283
\* gives sorted
inventory_risk_analysis(header, lines, inv, st, sorted) ==
    LET sales == SalesWithStore(lines, header)
        top5 == Head5(sorted)
        merged == MergeInventory(AllPairs(st, top5), inv)
    IN  [k \in 1..Len(merged) |->
            LET avg == AvgDailySales(TotalUnits(sales, top5, merged[k]))
                stock == merged[k].current_stock_level
                days_left == DaysOfInventoryLeft(stock, avg)
                lost_units == PotentialLostUnits(days_left, avg)
            IN  [store_id |-> merged[k].store_id,
                 store_city |-> StoreOf(st, merged[k].store_id).store_city,
                 store_region |-> StoreOf(st, merged[k].store_id).store_region,
                 product_id |-> merged[k].product_id,
                 avg_daily_sales |-> avg,
                 current_stock_level |-> stock,
                 days_of_inventory_left |-> days_left,
                 risk |-> classify(days_left),
                 potential_lost_units |-> lost_units,
                 potential_lost_revenue |-> PotentialLostRevenue(lost_units, avg)]]

StoreRow(k) == [store_id |-> k, store_city |-> k % 3, store_region |-> (k % 2) + 1]

\* transaction k was made in store k
InvHeader == [k \in 1..2 |-> HeaderRow(<<k, 1, k, k, 100 * Unit>>)]

\* quantities selling 1 and 2 units a day
InvQuantities == {7, 14}

InvLineTables(n) ==
    {[k \in 1..n |->
         [transaction_id |-> f[k][1], product_id |-> f[k][2],
          promotion_id |-> NaN, quantity |-> f[k][3],
          line_item_amount |-> 100 * Unit]] :
       f \in [1..n -> (1..2) \X (1..2) \X InvQuantities]}

\* stock levels on both sides of each threshold
InvStocks == {0, 1, 2, 3, 5, 20, 21}

\* inventory rows of store 1; store 2 has none
InventoryTables(n) ==
    {[k \in 1..n |->
         [store_id |-> 1, product_id |-> f[k][1],
          current_stock_level |-> f[k][2]]] :
       f \in [1..n -> (1..2) \X InvStocks]}

InitInventory ==
    /\ store_sales_header = InvHeader
    /\ \E n \in 0..MaxInvLines : store_sales_line_items \in InvLineTables(n)
    /\ \E n \in 0..MaxInvRecords : inventory \in InventoryTables(n)
    /\ stores = <<StoreRow(1), StoreRow(2)>>
    /\ customer_details = << >>
    /\ promotion_details = << >>
    /\ customers = << >>
    /\ results = << >>
    /\ out = << >>
    /\ pc = "start"

\* a call of inventory_risk_analysis on the input tables
InventoryCall ==
    /\ pc = "start"
    /\ \E sorted \in SortValuesDescending(
                        ProdSales(SalesWithStore(store_sales_line_items,
                                                 store_sales_header))) :
          out' = <<inventory_risk_analysis(store_sales_header, store_sales_line_items,
                                           inventory, stores, sorted)>>
    /\ pc' = "returned"
    /\ UNCHANGED <<store_sales_header, store_sales_line_items, customer_details,
                   promotion_details, inventory, stores, customers, results>>

NextInventory == InventoryCall

SpecInventory == InitInventory /\ [][NextInventory]_vars

\* The top-5 selection among up to MaxTopProducts products sold in one
\* store, one line item per product.
MaxTopProducts == 6

\* line items of the products 1..n, in ascending or in descending
\* product_id, each with quantity 1 or 2
TopLineTables(n) ==
    {[k \in 1..n |->
         [transaction_id |-> 1,
          product_id |-> IF asc THEN k ELSE n + 1 - k,
          promotion_id |-> NaN, quantity |-> q[k],
          line_item_amount |-> 100 * Unit]] :
       q \in [1..n -> {1, 2}], asc \in BOOLEAN}

InitTop5 ==
    /\ store_sales_header = <<HeaderRow(<<1, 1, 1, 1, 100 * Unit>>)>>
    /\ \E n \in 0..MaxTopProducts : store_sales_line_items \in TopLineTables(n)
    /\ inventory = << >>
    /\ stores = <<StoreRow(1)>>
    /\ customer_details = << >>
    /\ promotion_details = << >>
    /\ customers = << >>
    /\ results = << >>
    /\ out = << >>
    /\ pc = "start"

SpecTop5 == InitTop5 /\ [][NextInventory]_vars

----------------------------------------------------------------------------
(* 2. promotion_analysis                                                   *)

MaxPromoTx == 2       \* header rows of a promotion-analysis run
MaxPromoLines == 2    \* line items of a promotion-analysis run

\* a timestamp is a number of half days
TicksPerDay == 2

\* line 70: .dt.date, missing for a missing timestamp
DateOf(ts) == IF IsNull(ts) THEN NaN ELSE ts \div TicksPerDay

RECURSIVE LinesWithDate(_, _)
\* line 52: the line items left-merged with the header on transaction_id; a
\* line item without a header row gets a missing transaction_date
LinesWithDate(lines, header) ==
    IF lines = << >> THEN << >>
    ELSE LET l == Head(lines)
             hs == SelectRows(header,
                      {k \in 1..Len(header) :
                          header[k].transaction_id = l.transaction_id})
             row(ts) == [transaction_id |-> l.transaction_id,
                         promotion_id |-> l.promotion_id,
                         quantity |-> l.quantity,
                         line_item_amount |-> l.line_item_amount,
                         transaction_date |-> ts]
         IN  (IF hs = << >> THEN <<row(NaN)>>
              ELSE [k \in 1..Len(hs) |-> row(hs[k].transaction_date)])
             \o LinesWithDate(Tail(lines), header)

PeriodExclusive(ts, start, end) ==
    IF ~IsNull(ts) /\ ts <= start THEN "pre"
    ELSE IF ~IsNull(ts) /\ ts >= end THEN "post"
    ELSE "during"
\* lines 59-61; a comparison with a missing timestamp is False
Period(ts, start, end) ==
    IF ~IsNull(ts) /\ ts < start THEN "pre"
    ELSE IF ~IsNull(ts) /\ ts > end THEN "post"
    ELSE "during"

\* the order of the period labels as strings
PeriodRank(period) ==
    IF period = "during" THEN 1 ELSE IF period = "post" THEN 2 ELSE 3

RECURSIVE SortedKeys(_)
\* the keys of groupby(['date','period']), ascending
SortedKeys(K) ==
    IF K = {} THEN << >>
    ELSE LET m == CHOOSE x \in K : \A y \in K :
                      \/ x[1] < y[1]
                      \/ (x[1] = y[1] /\ PeriodRank(x[2]) <= PeriodRank(y[2]))
         IN  <<m>> \o SortedKeys(K \ {m})

RECURSIVE SumAmount(_)
\* ('line_item_amount','sum') over the rows of a group
SumAmount(rows) ==
    IF rows = << >> THEN 0
    ELSE (IF IsNull(Head(rows).line_item_amount) THEN 0
          ELSE Head(rows).line_item_amount)
         + SumAmount(Tail(rows))

\* lines 58-81: the rows of one promotion; groupby drops the rows with a
\* missing date
PromoDaily(lines, promo, metric) ==
    LET promo_lines == SelectRows(lines,
            {k \in 1..Len(lines) : lines[k].promotion_id = promo.promotion_id})
        period(k) == Period(promo_lines[k].transaction_date,
                            promo.start_date, promo.end_date)
        date(k) == DateOf(promo_lines[k].transaction_date)
        keys == SortedKeys({<<date(k), period(k)>> :
                               k \in {j \in 1..Len(promo_lines) : ~IsNull(date(j))}})
    IN  [i \in 1..Len(keys) |->
            LET group == SelectRows(promo_lines,
                    {k \in 1..Len(promo_lines) : <<date(k), period(k)>> = keys[i]})
                units_sold == SumQuantity(group)
                revenue == SumAmount(group)
            IN  [date |-> keys[i][1],
                 period |-> keys[i][2],
                 units_sold |-> units_sold,
                 revenue |-> revenue,
                 promotion_id |-> promo.promotion_id,
                 promotion_name |-> promo.promotion_name,
                 value |-> IF metric = "units" THEN units_sold ELSE revenue]]

RECURSIVE ConcatDaily(_, _, _)
\* the loop of line 55 and the concat of line 84
ConcatDaily(lines, promos, metric) ==
    IF promos = << >> THEN << >>
    ELSE PromoDaily(lines, Head(promos), metric)
         \o ConcatDaily(lines, Tail(promos), metric)

\* the table promotion_analysis returns
promotion_analysis(header, lines, promos, metric) ==
    ConcatDaily(LinesWithDate(lines, header), promos, metric)

\* promotion 1 starts in the middle of day 1 and ends at timestamp 5;
\* promotion 2 ends where day 1 begins
PromoPromotions ==
    <<[promotion_id |-> 1, promotion_name |-> "PR001", start_date |-> 3, end_date |-> 5],
      [promotion_id |-> 2, promotion_name |-> "PR002", start_date |-> 1, end_date |-> 2]>>

\* before the start of promotion 1 on day 1, its start, its end, after it
PromoTimestamps == {2, 3, 5, 6}

PromoHeaderTables ==
    {[k \in 1..MaxPromoTx |-> HeaderRow(<<k, 1, 1, d[k], 100 * Unit>>)] :
        d \in [1..MaxPromoTx -> PromoTimestamps]}

\* line item k has quantity k and amount 10.00 * k; transaction
\* MaxPromoTx + 1 has no header row
PromoLineTables(n) ==
    {[k \in 1..n |->
         [transaction_id |-> f[k][1], product_id |-> 1,
          promotion_id |-> f[k][2], quantity |-> k,
          line_item_amount |-> 10 * Unit * k]] :
       f \in [1..n -> (1..(MaxPromoTx + 1)) \X {1, 2, NaN}]}

PromoMetrics == {"units", "revenue", "margin"}

InitPromo ==
    /\ store_sales_header \in PromoHeaderTables
    /\ \E n \in 0..MaxPromoLines : store_sales_line_items \in PromoLineTables(n)
    /\ promotion_details = PromoPromotions
    /\ inventory = << >>
    /\ stores = << >>
    /\ customer_details = << >>
    /\ customers = << >>
    /\ results = << >>
    /\ out = << >>
    /\ pc = "start"

\* a call of promotion_analysis on the input tables with some metric
PromoCall ==
    /\ pc = "start"
    /\ \E metric \in PromoMetrics :
          out' = <<[metric |-> metric,
                    table |-> promotion_analysis(store_sales_header,
                                  store_sales_line_items, promotion_details, metric)]>>
    /\ pc' = "returned"
    /\ UNCHANGED <<store_sales_header, store_sales_line_items, customer_details,
                   promotion_details, inventory, stores, customers, results>>

NextPromo == PromoCall

SpecPromo == InitPromo /\ [][NextPromo]_vars

----------------------------------------------------------------------------
(* Claims about loyalty_engine                                             *)

NonNegativeLoyaltyInputs ==
    /\ \A k \in 1..Len(store_sales_header) : store_sales_header[k].total_amount >= 0
    /\ \A k \in 1..Len(customer_details) : customer_details[k].total_loyalty_points >= 0

\* C1: when every total_amount is >= 0 and every initial balance is >= 0,
\* every updated_balance written to a result record and every balance of
\* the engine's customer table, after each processed transaction, is >= 0.
C1_BalanceNeverNegative ==
    NonNegativeLoyaltyInputs =>
        /\ \A k \in 1..Len(results) : results[k].updated_balance >= 0
        /\ \A k \in 1..Len(customers) : customers[k].total_loyalty_points >= 0

\* a finished run of non-negative transactions in which coins were redeemed
C1_Witness ==
    /\ pc = "returned"
    /\ NonNegativeLoyaltyInputs
    /\ Len(results) >= 2
    /\ \E k \in 1..Len(results) : results[k].coins_redeemed > 0

\* the records before position k that belong to customer cid
PreviousRecords(k, cid) == {j \in 1..(k - 1) : results[j].customer_id = cid}

Latest(S) == CHOOSE j \in S : \A i \in S : i <= j

\* the balance the caller's customer table gives for cid, 0 when absent
TableBalance(cid) ==
    IF \E c \in 1..Len(customer_details) : customer_details[c].customer_id = cid
    THEN customer_details[CHOOSE c \in 1..Len(customer_details) :
                              customer_details[c].customer_id = cid].total_loyalty_points
    ELSE 0

\* C2: the k-th result record belongs to the k-th header row, a finished run
\* has one record per header row, and in each record
\* earned = min(floor(total_amount * 0.02), 100),
\* redeemed = min(floor(existing * 0.10), earned) and
\* updated_balance = existing + earned - redeemed, where existing is the
\* updated_balance of the same customer's previous record, or the
\* customer's balance in the customer table (0 when absent from it).
C2_RecordPerHeaderRow ==
    /\ Len(results) <= Len(store_sales_header)
    /\ pc = "returned" =>
           /\ Len(results) = Len(store_sales_header)
           /\ out = <<results>>
    /\ \A k \in 1..Len(results) :
          LET tx == store_sales_header[k]
              r == results[k]
              prev == PreviousRecords(k, r.customer_id)
              existing == IF prev # {} THEN results[Latest(prev)].updated_balance
                          ELSE TableBalance(r.customer_id)
              floor2pct == (tx.total_amount * 2) \div (100 * Unit)
              floor10pct == (existing * 10) \div 100
          IN  /\ r.transaction_id = tx.transaction_id
              /\ r.customer_id = tx.customer_id
              /\ r.coins_earned = (IF floor2pct < 100 THEN floor2pct ELSE 100)
              /\ r.coins_redeemed =
                     (IF floor10pct < r.coins_earned THEN floor10pct ELSE r.coins_earned)
              /\ r.updated_balance = existing + r.coins_earned - r.coins_redeemed

\* a finished run with a record that earned nothing, a record capped at
\* 100, a record of a customer absent from the table and a record whose
\* existing balance is the previous record's
C2_Witness ==
    /\ pc = "returned"
    /\ \E k \in 1..Len(results) : results[k].coins_earned = 0
    /\ \E k \in 1..Len(results) :
          /\ results[k].coins_earned = 100
          /\ store_sales_header[k].total_amount > 5000 * Unit
    /\ \E k \in 1..Len(results) :
          /\ PreviousRecords(k, results[k].customer_id) # {}
          /\ results[k].coins_redeemed > 0
          /\ \A c \in 1..Len(customer_details) :
                customer_details[c].customer_id # results[k].customer_id

\* the customers of the caller's table with at least one processed transaction
ProcessedCustomers ==
    {c \in 1..Len(customer_details) :
        \E k \in 1..Len(results) :
            results[k].customer_id = customer_details[c].customer_id}

FinalBalance(cid) ==
    results[Latest({k \in 1..Len(results) : results[k].customer_id = cid})].updated_balance

\* C3 as stated: after loyalty_engine returns, the caller's customer table
\* holds the final balance of every customer with a processed transaction.
C3_CallerTableHoldsFinalBalance ==
    pc = "returned" =>
        \A c \in ProcessedCustomers :
            customer_details[c].total_loyalty_points =
                FinalBalance(customer_details[c].customer_id)

\* C3 amended: loyalty_engine never changes the caller's customer table;
\* after it returns, the final balance of every customer with a processed
\* transaction is held by the engine's own copy of the table and equals the
\* updated_balance of that customer's last result record.
C3_CallerTableUnchanged ==
    /\ [][customer_details' = customer_details]_vars
    /\ [](pc = "returned" =>
            \A c \in ProcessedCustomers :
                /\ InIndex(customers, customer_details[c].customer_id)
                /\ At(customers, customer_details[c].customer_id) =
                       FinalBalance(customer_details[c].customer_id))

\* a finished run after which the caller's table and the final balance differ
C3_Witness ==
    /\ pc = "returned"
    /\ \E c \in ProcessedCustomers :
          /\ customer_details[c].total_loyalty_points #
                 FinalBalance(customer_details[c].customer_id)
          /\ At(customers, customer_details[c].customer_id) =
                 FinalBalance(customer_details[c].customer_id)

----------------------------------------------------------------------------
(* Claims about quality_layer                                              *)

\* quality_layer has returned its four tables for the input tables
QualityReturned == pc \in {"returned", "rerun"} /\ out[1].error = "none"

InTable(t, r) == \E k \in 1..Len(t) : t[k] = r

Count(t, r) == Cardinality({k \in 1..Len(t) : t[k] = r})

HasNullRequiredField(h) ==
    NaN \in {h.transaction_id, h.customer_id, h.store_id, h.transaction_date, h.total_amount}

\* C4 as stated: a header is in rejected_header if and only if one of its
\* required fields is null, or total_amount < 0, or the sum of its line
\* amounts differs from total_amount by more than 0.01; so a header whose
\* line sum is off by a non-zero amount of at most 0.01 is clean.
C4_HeaderRejectedIffBeyondTolerance ==
    QualityReturned =>
        \A k \in 1..Len(store_sales_header) :
            LET h == store_sales_header[k]
                diff == h.total_amount - LineSum(store_sales_line_items, h.transaction_id)
            IN  InTable(out[1].rejected_header, h) <=>
                    \/ HasNullRequiredField(h)
                    \/ h.total_amount < 0
                    \/ diff > Tolerance
                    \/ diff < -Tolerance

\* C5 as stated: quality_layer applied to its own clean_header and
\* clean_lines returns the same clean tables and empty rejected tables.
C5_Idempotent ==
    pc = "rerun" =>
        /\ out[2].error = "none"
        /\ out[2].clean_header = out[1].clean_header
        /\ out[2].clean_lines = out[1].clean_lines
        /\ out[2].rejected_header = << >>
        /\ out[2].rejected_lines = << >>

C7_LineRejectedOnItsOwn ==
    QualityReturned =>
        \A k \in 1..Len(store_sales_line_items) :
            LET l == store_sales_line_items[k]
                bad == \/ NaN \in {l.transaction_id, l.product_id,
                                   l.quantity, l.line_item_amount}
                       \/ l.line_item_amount < 0
            IN  /\ InTable(out[1].rejected_lines, l) <=> bad
                /\ InTable(out[1].clean_lines, l) <=> ~bad

\* a returned call with a clean line of a header rejected for a total
\* mismatch, and a line rejected for a null quantity
C7_Witness ==
    /\ QualityReturned
    /\ \E k \in 1..Len(store_sales_line_items) :
          \E j \in 1..Len(store_sales_header) :
             /\ store_sales_header[j].transaction_id =
                    store_sales_line_items[k].transaction_id
             /\ ~HasNullRequiredField(store_sales_header[j])
             /\ store_sales_header[j].total_amount >= 0
             /\ InTable(out[1].rejected_header, store_sales_header[j])
             /\ InTable(out[1].clean_lines, store_sales_line_items[k])
    /\ \E k \in 1..Len(store_sales_line_items) :
          /\ store_sales_line_items[k].quantity = NaN
          /\ InTable(out[1].rejected_lines, store_sales_line_items[k])

----------------------------------------------------------------------------
(* Claims about rfm_segmentation                                           *)

\* C8 as stated: first match wins: a customer whose monetary decile is 10
\* is High Spenders (also when recency > 60 and balance > 0), otherwise
\* At-Risk when recency > 60 and balance > 0, otherwise Core.
C8_FirstMatchWins ==
    pc = "returned" =>
        \A k \in 1..Len(out[1]) :
            LET row == out[1][k]
            IN  row.segment =
                    IF row.m_score = 10 THEN "High Spenders"
                    ELSE IF row.recency # NaN /\ row.recency > 60
                            /\ row.total_loyalty_points > 0 THEN "At-Risk"
                    ELSE "Core"

\* C9 as stated: every output row has a segment among High Spenders,
\* At-Risk and Core and a monetary decile in 1..10; a customer with a
\* strictly larger monetary never has a smaller decile, customers with equal
\* monetary keep their row order, and the customer ranked highest is in
\* decile 10.
C9_DecilesCoverEveryCustomer ==
    pc = "returned" =>
        LET rows == out[1]
        IN  /\ Len(rows) = Len(customer_details)
            /\ \A k \in 1..Len(rows) :
                  /\ rows[k].segment \in {"High Spenders", "At-Risk", "Core"}
                  /\ rows[k].m_score \in 1..10
            /\ \A j, k \in 1..Len(rows) :
                  /\ rows[j].monetary < rows[k].monetary
                         => rows[j].m_score <= rows[k].m_score
                  /\ (rows[j].monetary = rows[k].monetary /\ j < k)
                         => rows[j].m_score <= rows[k].m_score
            /\ \A k \in 1..Len(rows) :
                  (\A j \in 1..Len(rows) :
                      j # k => \/ rows[j].monetary < rows[k].monetary
                               \/ (rows[j].monetary = rows[k].monetary /\ j < k))
                  => rows[k].m_score = 10

----------------------------------------------------------------------------
(* Claims about promotion_funnel                                           *)

\* the customers with a transaction dated within the window of promotion p
CustomersInWindow(p) ==
    {c \in FunnelCustomers :
        \E k \in 1..Len(store_sales_header) :
            /\ store_sales_header[k].customer_id = c
            /\ promotion_details[p].start_date <= store_sales_header[k].transaction_date
            /\ store_sales_header[k].transaction_date <= promotion_details[p].end_date}

\* the customers with a line item of promotion p in one of their transactions
CustomersWithPromoLine(p) ==
    {c \in FunnelCustomers :
        \E k \in 1..Len(store_sales_header) :
            \E i \in 1..Len(store_sales_line_items) :
                /\ store_sales_header[k].customer_id = c
                /\ store_sales_line_items[i].transaction_id =
                       store_sales_header[k].transaction_id
                /\ store_sales_line_items[i].promotion_id =
                       promotion_details[p].promotion_id}

\* C10: promotion_funnel returns one row per promotion with
\* eligible >= reacted >= purchased and purchased = reacted, where eligible
\* counts the distinct customers with a transaction dated within
\* [start, end], ends included, and reacted counts the eligible customers
\* having a line item with that promotion_id; pct_reacted and pct_purchased
\* are 0 when eligible is 0.
C10_FunnelCounts ==
    pc = "returned" =>
        /\ Len(out[1]) = Len(promotion_details)
        /\ \A p \in 1..Len(out[1]) :
              LET row == out[1][p]
              IN  /\ row.promotion_id = promotion_details[p].promotion_id
                  /\ row.eligible >= row.reacted
                  /\ row.reacted >= row.purchased
                  /\ row.purchased = row.reacted
                  /\ row.eligible = Cardinality(CustomersInWindow(p))
                  /\ row.reacted =
                         Cardinality({c \in CustomersInWindow(p) :
                                         c \in CustomersWithPromoLine(p)})
                  /\ row.eligible = 0 =>
                         /\ row.pct_reacted.num = 0
                         /\ row.pct_purchased.num = 0
                         /\ row.pct_reacted.den # 0
                         /\ row.pct_purchased.den # 0

\* a returned funnel with a promotion that has more eligible customers than
\* reacted ones, and a promotion without eligible customers one of whose
\* line items a customer bought outside the window
C10_Witness ==
    /\ pc = "returned"
    /\ \E p \in 1..Len(out[1]) :
          /\ out[1][p].eligible > out[1][p].reacted
          /\ out[1][p].reacted > 0
    /\ \E p \in 1..Len(out[1]) :
          /\ out[1][p].eligible = 0
          /\ CustomersWithPromoLine(p) # {}

\* C19: a customer whose last_purchase_date is missing has an undefined
\* recency and is never labelled At-Risk and never gets
\* reactivation_potential High, whatever the balance and the transactions;
\* when every last_purchase_date is missing, as in the generated customer
\* table, no row is At-Risk.
C19_MissingDateNeverAtRisk ==
    pc = "returned" =>
        /\ \A k \in 1..Len(out[1]) :
              customer_details[k].last_purchase_date = NaN =>
                  /\ out[1][k].recency = NaN
                  /\ out[1][k].segment # "At-Risk"
                  /\ out[1][k].reactivation_potential # "High"
        /\ (\A k \in 1..Len(customer_details) :
               customer_details[k].last_purchase_date = NaN)
           => \A k \in 1..Len(out[1]) : out[1][k].segment # "At-Risk"

\* a returned segmentation with a customer without last_purchase_date who
\* has points and a transaction, next to a customer who is At-Risk
C19_Witness ==
    /\ pc = "returned"
    /\ \E k \in 1..Len(out[1]) :
          /\ customer_details[k].last_purchase_date = NaN
          /\ customer_details[k].total_loyalty_points > 0
          /\ out[1][k].frequency > 0
          /\ out[1][k].segment # "At-Risk"
    /\ \E k \in 1..Len(out[1]) : out[1][k].segment = "At-Risk"

\* C17: loyalty_engine processes header rows in table order whatever their
\* transaction_date: the k-th result is that of the k-th header row, with
\* the balance left by the previous row of the same customer in table
\* order.  The output depends on that order: C17_Witness is a pair of runs
\* over the same transactions of one customer, from the same initial
\* balance, whose final balances differ.
C17_TableOrder ==
    /\ Len(results) <= Len(store_sales_header)
    /\ \A k \in 1..Len(results) :
          LET tx == store_sales_header[k]
              prev == {j \in 1..(k - 1) : results[j].customer_id = tx.customer_id}
              existing == IF prev = {}
                          THEN Existing(IndexedCopy(customer_details), tx.customer_id)
                          ELSE results[CHOOSE j \in prev : \A i \in prev : i <= j].updated_balance
          IN  /\ results[k].transaction_id = tx.transaction_id
              /\ results[k].coins_earned = Earned(tx.total_amount)
              /\ results[k].updated_balance =
                     existing + results[k].coins_earned - results[k].coins_redeemed

\* two finished runs over the same transactions, the second on a table
\* whose dates are not ascending, ending with different balances
C17_Witness ==
    /\ pc = "returned"
    /\ Len(out) = 2
    /\ Len(out[1]) = Len(out[2])
    /\ Len(out[1]) >= 2
    /\ {out[1][k].transaction_id : k \in 1..Len(out[1])}
         = {out[2][k].transaction_id : k \in 1..Len(out[2])}
    /\ \E k \in 1..(Len(store_sales_header) - 1) :
          store_sales_header[k].transaction_date
              > store_sales_header[k + 1].transaction_date
    /\ out[1][Len(out[1])].updated_balance # out[2][Len(out[2])].updated_balance

----------------------------------------------------------------------------
(* Claims about event_log and notification_simulator                       *)

\* the number of events named name in the returned event log
EventCount(name) ==
    Cardinality({k \in 1..Len(out[1].events) : out[1].events[k].event = name})

\* C11 as stated: the event log contains exactly one transaction event per
\* header, one promotion_purchase event per line item with a non-null
\* promotion_id, one coins_earned event per ledger result with earned > 0
\* (none for a result with earned = 0), one coins_redeemed event per result
\* with redeemed > 0, and one inactivity_threshold event per customer whose
\* segment is At-Risk.
C11_EventLogContents ==
    pc \in {"events", "returned"} =>
        LET ldf == out[1].loyalty_df
            rfm == out[1].rfm
            nPromo == Cardinality({k \in 1..Len(store_sales_line_items) :
                          store_sales_line_items[k].promotion_id # NaN})
            nEarned == Cardinality({k \in 1..Len(ldf) : ldf[k].coins_earned > 0})
            nRedeemed == Cardinality({k \in 1..Len(ldf) : ldf[k].coins_redeemed > 0})
            nAtRisk == Cardinality({k \in 1..Len(rfm) : rfm[k].segment = "At-Risk"})
        IN  /\ EventCount("transaction") = Len(store_sales_header)
            /\ EventCount("promotion_purchase") = nPromo
            /\ EventCount("coins_earned") = nEarned
            /\ EventCount("coins_redeemed") = nRedeemed
            /\ EventCount("inactivity_threshold") = nAtRisk
            /\ Len(out[1].events) =
                   Len(store_sales_header) + nPromo + nEarned + nRedeemed + nAtRisk

\* the ledger results that earned coins, in ledger order
EarningResults ==
    SelectRows(out[1].loyalty_df,
        {k \in 1..Len(out[1].loyalty_df) : out[1].loyalty_df[k].coins_earned > 0})

\* C12: notification_simulator produces exactly one log record for each
\* ledger result with earned > 0 and none for a result with earned = 0; the
\* record's template is VIP_Earned when the customer's segment is High
\* Spenders, Reactivation_Nudge when it is At-Risk, and Standard_Earned in
\* every other case, a customer missing from the RFM table included.
C12_OneRecordPerEarningResult ==
    pc = "returned" =>
        /\ Len(out[2]) = Len(EarningResults)
        /\ \A k \in 1..Len(out[2]) :
              LET cid == EarningResults[k].customer_id
                  rfm == out[1].rfm
                  segs == {rfm[j].segment : j \in {i \in 1..Len(rfm) :
                                                      rfm[i].customer_id = cid}}
              IN  /\ out[2][k].customer_id = cid
                  /\ out[2][k].points_earned = EarningResults[k].coins_earned
                  /\ out[2][k].template_used =
                        IF segs = {"High Spenders"} THEN "VIP_Earned"
                        ELSE IF segs = {"At-Risk"} THEN "Reactivation_Nudge"
                        ELSE "Standard_Earned"

\* a run with a result that earned nothing, a record of a customer missing
\* from the RFM table and a record of a High Spenders or At-Risk customer
C12_Witness ==
    /\ pc = "returned"
    /\ \E k \in 1..Len(out[1].loyalty_df) : out[1].loyalty_df[k].coins_earned = 0
    /\ \E k \in 1..Len(out[2]) :
          /\ out[2][k].template_used = "Standard_Earned"
          /\ \A j \in 1..Len(out[1].rfm) :
                out[1].rfm[j].customer_id # out[2][k].customer_id
    /\ \E k \in 1..Len(out[2]) :
          out[2][k].template_used \in {"VIP_Earned", "Reactivation_Nudge"}

\* C13: in every notification record the distance to the next reward
\* stated in call_to_action is 100 - (new_balance mod 100), new_balance
\* being the updated_balance of the ledger result; for every non-negative
\* balance it lies in 1..100, and it is 100, never 0, when the balance is
\* an exact multiple of 100.
C13_DistanceToNextReward ==
    /\ \A b \in 0..200 :
          /\ DistToNext(b) \in 1..100
          /\ DistToNext(b) = 100 - (b % 100)
          /\ (b % 100 = 0) => DistToNext(b) = 100
    /\ pc = "returned" =>
          \A k \in 1..Len(out[2]) :
              LET b == EarningResults[k].updated_balance
                  d == out[2][k].call_to_action[2]
              IN  /\ out[2][k].total_points = b
                  /\ out[2][k].call_to_action =
                         <<"Earn ", 100 - (b % 100), " more coins for your next reward!">>
                  /\ d \in 1..100
                  /\ (b % 100 = 0) => d = 100

\* a notification for a balance that is a positive multiple of 100, and
\* one for a balance that is not
C13_Witness ==
    /\ pc = "returned"
    /\ \E k \in 1..Len(out[2]) :
          /\ out[2][k].total_points > 0
          /\ out[2][k].total_points % 100 = 0
          /\ out[2][k].call_to_action[2] = 100
    /\ \E k \in 1..Len(out[2]) : out[2][k].call_to_action[2] < 100

----------------------------------------------------------------------------
(* Claims about inventory_risk_analysis                                    *)

\* the line items of product p sold in store s
LinesOf(s, p) ==
    {k \in 1..Len(store_sales_line_items) :
        /\ store_sales_line_items[k].product_id = p
        /\ \E h \in 1..Len(store_sales_header) :
              /\ store_sales_header[h].transaction_id =
                     store_sales_line_items[k].transaction_id
              /\ store_sales_header[h].store_id = s}

\* the inventory rows of store s and product p
RecordsOf(s, p) ==
    {k \in 1..Len(inventory) :
        inventory[k].store_id = s /\ inventory[k].product_id = p}

\* C14: inventory_risk_analysis outputs a row for every (store, top-5
\* product) pair, pairs with zero observed sales (avg_daily_sales = 0) and
\* pairs without an inventory record (stock = 0) included; the risk is
\* Unknown when avg_daily_sales is 0, whatever the stock, otherwise
\* Critical when days_of_inventory_left < 2, Watchlist when < 5,
\* Overstocked when > 20, otherwise Safe, with days_of_inventory_left =
\* current_stock_level / (total_units / 7).  (Here fewer than five
\* products are sold, so every product sold is a top-5 product.)
C14_RowPerPairAndRisk ==
    pc = "returned" =>
        LET rows == out[1]
            sold == {store_sales_line_items[k].product_id :
                        k \in 1..Len(store_sales_line_items)}
        IN  /\ \A s \in 1..Len(stores) : \A p \in sold :
                  \E k \in 1..Len(rows) :
                      rows[k].store_id = stores[s].store_id /\ rows[k].product_id = p
            /\ \A k \in 1..Len(rows) :
                  LET r == rows[k]
                      units == r.avg_daily_sales.num
                      stock == r.current_stock_level
                  IN  /\ r.product_id \in sold
                      /\ r.avg_daily_sales.den = 7
                      /\ LinesOf(r.store_id, r.product_id) = {} => units = 0
                      /\ RecordsOf(r.store_id, r.product_id) = {} => stock = 0
                      /\ units = 0 =>
                            r.days_of_inventory_left.num = NaN /\ r.risk = "Unknown"
                      /\ units # 0 =>
                            /\ r.days_of_inventory_left.num # NaN
                            /\ r.days_of_inventory_left.num * units
                                   = stock * 7 * r.days_of_inventory_left.den
                            /\ r.risk =
                                  IF stock * 7 < 2 * units THEN "Critical"
                                  ELSE IF stock * 7 < 5 * units THEN "Watchlist"
                                  ELSE IF stock * 7 > 20 * units THEN "Overstocked"
                                  ELSE "Safe"

\* a returned table with a pair without sales that has stock (Unknown) and
\* a pair with sales and no inventory record (stock 0, Critical)
C14_Witness ==
    /\ pc = "returned"
    /\ \E k \in 1..Len(out[1]) :
          /\ out[1][k].risk = "Unknown"
          /\ out[1][k].current_stock_level > 0
    /\ \E k \in 1..Len(out[1]) :
          /\ RecordsOf(out[1][k].store_id, out[1][k].product_id) = {}
          /\ out[1][k].avg_daily_sales.num > 0
          /\ out[1][k].current_stock_level = 0
          /\ out[1][k].risk = "Critical"

\* C15: in every output row potential_lost_units equals avg_daily_sales
\* when days_of_inventory_left is defined and < 1, and 0 otherwise (when it
\* is undefined, and when it is in [1, 2) with risk Critical, such as stock
\* 3 with avg_daily_sales 2); potential_lost_revenue equals
\* potential_lost_units * avg_daily_sales.
C15_PotentialLoss ==
    pc = "returned" =>
        \A k \in 1..Len(out[1]) :
            LET r == out[1][k]
                avg == r.avg_daily_sales
                days == r.days_of_inventory_left
                plu == r.potential_lost_units
                plr == r.potential_lost_revenue
            IN  /\ (days.num # NaN /\ days.num < days.den)
                       => plu.num * avg.den = avg.num * plu.den
                /\ ~(days.num # NaN /\ days.num < days.den) => plu.num = 0
                /\ plu.den > 0 /\ plr.den > 0
                /\ plr.num * (plu.den * avg.den) = (plu.num * avg.num) * plr.den

\* a returned table with a row out of stock within a day, and the row with
\* stock 3 and avg_daily_sales 2: Critical without potential loss
C15_Witness ==
    /\ pc = "returned"
    /\ \E k \in 1..Len(out[1]) :
          /\ out[1][k].potential_lost_units.num > 0
          /\ out[1][k].potential_lost_revenue.num > 0
    /\ \E k \in 1..Len(out[1]) :
          /\ out[1][k].current_stock_level = 3
          /\ out[1][k].avg_daily_sales = [num |-> 14, den |-> 7]
          /\ out[1][k].risk = "Critical"
          /\ out[1][k].potential_lost_units.num = 0

\* total units sold of product p over all line items
UnitsSoldOf(p) ==
    SumQuantity(SelectRows(store_sales_line_items,
        {k \in 1..Len(store_sales_line_items) :
            store_sales_line_items[k].product_id = p}))

\* the position of the first line item of product p
FirstLineOf(p) ==
    CHOOSE k \in 1..Len(store_sales_line_items) :
        /\ store_sales_line_items[k].product_id = p
        /\ \A j \in 1..(k - 1) : store_sales_line_items[j].product_id # p

\* C18 as stated: the top-5 are the five products with the largest total
\* units sold, in descending order; when products tie on total units at the
\* cut-off, the ones that appear first in the line-item order are selected;
\* when fewer than five products have sales all of them are selected.
\* (With one store, the product_id column of the output is the top-5 list.)
C18_Top5TiesByLineOrder ==
    pc = "returned" =>
        LET top5 == [k \in 1..Len(out[1]) |-> out[1][k].product_id]
            sold == {store_sales_line_items[k].product_id :
                        k \in 1..Len(store_sales_line_items)}
            selected == {top5[k] : k \in 1..Len(top5)}
        IN  /\ Len(top5) = Min(5, Cardinality(sold))
            /\ Cardinality(selected) = Len(top5)
            /\ selected \subseteq sold
            /\ \A i, j \in 1..Len(top5) :
                  i < j => UnitsSoldOf(top5[i]) >= UnitsSoldOf(top5[j])
            /\ \A p \in selected : \A q \in sold \ selected :
                  /\ UnitsSoldOf(p) >= UnitsSoldOf(q)
                  /\ UnitsSoldOf(p) = UnitsSoldOf(q) => FirstLineOf(p) < FirstLineOf(q)

----------------------------------------------------------------------------
(* Claims about promotion_analysis                                         *)

\* the timestamp of the transaction of line item k, NaN without a header row
TimestampOfLine(k) ==
    LET hs == {h \in 1..Len(store_sales_header) :
                  store_sales_header[h].transaction_id =
                      store_sales_line_items[k].transaction_id}
    IN  IF hs = {} THEN NaN
        ELSE store_sales_header[CHOOSE h \in hs : TRUE].transaction_date

\* the line items of promotion p sold on day date in the period named
LinesOfGroup(p, date, period) ==
    {k \in 1..Len(store_sales_line_items) :
        LET ts == TimestampOfLine(k)
        IN  /\ store_sales_line_items[k].promotion_id = promotion_details[p].promotion_id
            /\ ts # NaN
            /\ ts \div TicksPerDay = date
            /\ period = IF ts < promotion_details[p].start_date THEN "pre"
                        ELSE IF ts > promotion_details[p].end_date THEN "post"
                        ELSE "during"}

\* C16: for each promotion, promotion_analysis aggregates only line items
\* whose promotion_id equals that promotion's id, keyed by (date, period),
\* with units_sold = sum of quantity and revenue = sum of amount; the
\* period of a line is pre when its transaction timestamp is before start,
\* post when after end, and during otherwise (a timestamp equal to start or
\* end is during); a promotion with no matching line items contributes no
\* rows; value equals units_sold when metric is 'units' and revenue
\* otherwise, with both columns always present.
C16_PromotionDailyMetric ==
    pc = "returned" =>
        LET rows == out[1].table
            periods == {"pre", "during", "post"}
        IN  /\ \A i \in 1..Len(rows) :
                  \E p \in 1..Len(promotion_details) :
                      LET group == LinesOfGroup(p, rows[i].date, rows[i].period)
                          lines == SelectRows(store_sales_line_items, group)
                      IN  /\ rows[i].promotion_id = promotion_details[p].promotion_id
                          /\ group # {}
                          /\ rows[i].units_sold = SumQuantity(lines)
                          /\ rows[i].revenue = SumAmount(lines)
                          /\ rows[i].value = IF out[1].metric = "units"
                                             THEN rows[i].units_sold
                                             ELSE rows[i].revenue
            /\ \A p \in 1..Len(promotion_details) :
                  \A date \in 0..4 : \A period \in periods :
                      Cardinality({i \in 1..Len(rows) :
                                      /\ rows[i].promotion_id =
                                             promotion_details[p].promotion_id
                                      /\ rows[i].date = date
                                      /\ rows[i].period = period})
                        = IF LinesOfGroup(p, date, period) = {} THEN 0 ELSE 1

\* a returned table, by revenue, whose rows are a during row and a pre row
\* of promotion 1 on the same day, the during one sold at the start
\* timestamp; promotion 2, without line items, has no row
C16_Witness ==
    /\ pc = "returned"
    /\ out[1].metric = "revenue"
    /\ Len(out[1].table) = 2
    /\ \A k \in 1..2 : out[1].table[k].promotion_id = 1
    /\ out[1].table[1].date = out[1].table[2].date
    /\ out[1].table[1].period = "during"
    /\ out[1].table[2].period = "pre"
    /\ out[1].table[1].value = out[1].table[1].revenue
    /\ \E k \in 1..Len(store_sales_line_items) :
          TimestampOfLine(k) = promotion_details[1].start_date

====
